---- MODULE Spec2Model ----
(***************************************************************************)
(* TalkBot GUI (src/talkbot_gui.py): the settings record and its file, the *)
(* main window's event handlers, the camera timer callback and the         *)
(* text-to-speech worker threads, as one state machine.                    *)
(*                                                                         *)
(* Text is modelled as a sequence of tokens.  A token is a word, the       *)
(* whitespace token "_" or the newline token "NL"; words of one line are   *)
(* separated by single blanks, so f"{a} {b}" is the concatenation of the   *)
(* token sequences of a and b.  "TS" is the "[HH:MM:SS]" time stamp.       *)
(***************************************************************************)
EXTENDS Integers, Sequences, FiniteSets, TLC

\* ------------------------------------------------------------------ bounds
\* Most lines the log pane may hold before the handlers stop being offered.
MaxLog == 5
\* Most text-to-speech worker threads alive at the same time.
MaxThreads == 2

\* ------------------------------------------------------------ text helpers
White == {"_", "NL"}

SetMin(S) == CHOOSE x \in S : \A y \in S : x <= y
SetMax(S) == CHOOSE x \in S : \A y \in S : x >= y

\* str.strip(): drop leading and trailing whitespace.
Strip(s) ==
  LET keep == {i \in 1..Len(s) : s[i] \notin White}
  IN IF keep = {} THEN <<>> ELSE SubSeq(s, SetMin(keep), SetMax(keep))

\* The lines of a text: split at every newline.
RECURSIVE Lines(_)
Lines(s) ==
  LET nl == {i \in 1..Len(s) : s[i] = "NL"}
  IN IF nl = {} THEN <<s>>
     ELSE <<SubSeq(s, 1, SetMin(nl) - 1)>> \o Lines(SubSeq(s, SetMin(nl) + 1, Len(s)))

\* str.startswith(p) for a one-token prefix p.
StartsWith(s, p) == Len(s) > 0 /\ s[1] = p

\* ---------------------------------------------------------------- Settings
\* A Python value held by a Settings field or a JSON member: a string, a
\* number, null, or (JSON only) an absent member.
PyStr(s) == [t |-> "str", s |-> s]
PyNum == [t |-> "num", s |-> <<"5">>]
PyNull == [t |-> "null", s |-> <<>>]
Absent == [t |-> "absent", s |-> <<>>]

\* Settings(): the dataclass defaults.
SettingsDefault == [host |-> PyStr(<<>>), api_key |-> PyStr(<<>>), voice_name |-> PyStr(<<>>)]

NoObject == [host |-> Absent, api_key |-> Absent, voice_name |-> Absent, other |-> Absent]
NoFile == [kind |-> "absent", obj |-> NoObject]

\* cls(**kwargs): an unexpected keyword raises TypeError, a missing one takes
\* the default, and no value is type-checked.
SettingsCtor(obj) ==
  IF obj.other.t # "absent" THEN [raised |-> TRUE, rec |-> SettingsDefault]
  ELSE [raised |-> FALSE,
        rec |-> [f \in {"host", "api_key", "voice_name"} |->
                   IF obj[f].t = "absent" THEN SettingsDefault[f] ELSE obj[f]]]

\* Settings.load()
SettingsLoad(f) ==
  IF f.kind = "absent" THEN SettingsDefault
  ELSE IF f.kind # "object" THEN SettingsDefault   \* read_text / json.loads / ** raise
  ELSE IF SettingsCtor(f.obj).raised THEN SettingsDefault
  ELSE SettingsCtor(f.obj).rec

\* A save that leaves voice_name out of the object it writes.
SettingsSaveNoVoice(rec) ==
  [kind |-> "object",
   obj |-> [host |-> rec.host, api_key |-> rec.api_key,
            voice_name |-> Absent, other |-> Absent]]

\* Settings.save(): json.dumps(asdict(self)) written over the file.
SettingsSave(rec) ==
  [kind |-> "object",
   obj |-> [host |-> rec.host, api_key |-> rec.api_key,
            voice_name |-> rec.voice_name, other |-> Absent]]

\* ------------------------------------------------------------------- state
VARIABLES
  phase,              \* "off": no process; "on": the window is constructed
  libs,               \* which optional imports succeeded: pyttsx3, sr, cv2
  file,               \* settings.json
  loaded,             \* what the last Settings.load() returned
  settings,           \* self.settings
  host_edit, key_edit, chat_input, mic_target,
  voice_items, voice_idx,     \* self.voice_combo: its items, its current index
  cap, cam_timer, last_frame, \* camera state
  tts_lock,           \* self._tts_lock: 0 when free, else the holder
  last_spoken_text,   \* self._last_spoken_text
  log,                \* self.log: the lines of its plain text
  threads,            \* the worker threads started by _speak_async
  obs,                \* what the last step did (observation only)
  hist                \* the last Save click and voice selection (observation only)

vars == <<phase, libs, file, loaded, settings, host_edit, key_edit, chat_input,
          mic_target, voice_items, voice_idx, cap, cam_timer, last_frame,
          tts_lock, last_spoken_text, log, threads, obs, hist>>

settingsVars == <<file, loaded, settings>>
editVars == <<host_edit, key_edit, chat_input, mic_target>>
voiceVars == <<voice_items, voice_idx>>
cameraVars == <<cap, cam_timer, last_frame>>
ttsVars == <<tts_lock, last_spoken_text, threads>>

Slots == 1..MaxThreads
IdleThread == [pc |-> "idle", text |-> <<>>]

\* What a step is recorded to have done.
\*   handler : the handler, callback or thread body that ran
\*   thread  : the thread that ran it, "ui" or "worker"
\*   msgs    : the messages it passed to _log, in order
\*   speak   : the texts it passed to _speak_async
\*   sent    : the HTTP requests it sent
\*   reply   : the gateway's reply to the request it sent
\*   listen  : whether it ran the blocking microphone listen
\*   fail    : the external call that failed in it ("none" when none did)
\*   escaped : whether an exception left the handler
Result(msgs, speak, sent, listen, fail, escaped) ==
  [msgs |-> msgs, speak |-> speak, sent |-> sent, listen |-> listen,
   fail |-> fail, escaped |-> escaped]
Quiet == Result(<<>>, <<>>, <<>>, FALSE, "none", FALSE)
Obs(h, th, r, reply) ==
  [handler |-> h, thread |-> th, msgs |-> r.msgs, speak |-> r.speak, sent |-> r.sent,
   reply |-> reply, listen |-> r.listen, fail |-> r.fail, escaped |-> r.escaped]

\* ----------------------------------------------------------------- logging
\* MainWindow._log: one time-stamped paragraph; a newline inside msg starts a
\* new line of the pane's plain text.
LogLines(msg) == Lines(<<"TS">> \o msg)

\* --------------------------------------------------------- voice selection
InstalledVoices == <<  <<"amy">>, <<"bob">>  >>

BeginsParen(name) == StartsWith(name, "(pyttsx3 not available)") \/ StartsWith(name, "(system default)")

\* MainWindow._on_voice_changed, as a function of the combo's current text
\* and the settings: the settings it leaves, saved to the file, and its line.
VoiceName(name) == IF name = <<>> \/ BeginsParen(name) THEN <<>> ELSE name
VoiceMsg(name) ==
  <<"Voice set:">> \o (IF VoiceName(name) = <<>> THEN <<"system default">> ELSE VoiceName(name))
VoiceLine(name) == LogLines(VoiceMsg(name))
OnVoiceChanged(st, name) == [st EXCEPT !.voice_name = PyStr(VoiceName(name))]

IndexOf(seq, x) == SetMin({i \in 1..Len(seq) : seq[i] = x})

\* MainWindow._refresh_voice_list during construction.  enum is what the
\* engine's voice enumeration does: "ok", "empty" (no voices) or "raise".
\* Adding the first item to the empty combo makes it current, and setting
\* another current index changes it again: each change runs _on_voice_changed.
RefreshVoiceList(st, lb, enum) ==
  LET names == IF enum = "ok" THEN InstalledVoices ELSE <<>>
      items == IF ~lb.pyttsx3 THEN << <<"(pyttsx3 not available)">> >>
               ELSE IF enum = "raise" THEN << <<"(system default)">> >>
               ELSE names
      want  == IF st.voice_name.t = "str" /\ st.voice_name.s # <<>>
                  /\ \E i \in 1..Len(names) : names[i] = st.voice_name.s
               THEN IndexOf(names, st.voice_name.s)
               ELSE IF Len(names) > 0 THEN 1 ELSE 0
      idx   == IF ~lb.pyttsx3 \/ enum = "raise" THEN 1 ELSE want
      first == IF Len(items) > 0 THEN OnVoiceChanged(st, items[1]) ELSE st
      final == IF idx > 1 THEN OnVoiceChanged(first, items[idx]) ELSE first
  IN [items |-> items, idx |-> idx, settings |-> final,
      saved |-> Len(items) > 0,
      picked |-> IF idx > 0 THEN <<items[idx]>> ELSE <<>>,
      lines |-> (IF Len(items) > 0 THEN VoiceLine(items[1]) ELSE <<>>)
                \o (IF idx > 1 THEN VoiceLine(items[idx]) ELSE <<>>)]

IsStr(v) == v.t = "str"

\* MainWindow.__init__ on settings file f: QLineEdit(text) needs a str, so a
\* non-string host or api_key ends construction with a TypeError.
Construct(f, lb, enum) ==
  LET ld == SettingsLoad(f)
      ok == IsStr(ld.host) /\ IsStr(ld.api_key)
      rv == RefreshVoiceList(ld, lb, enum)
  IN [ok |-> ok, loaded |-> ld,
      settings |-> IF ok THEN rv.settings ELSE ld,
      file |-> IF ok /\ rv.saved THEN SettingsSave(rv.settings) ELSE f,
      host_edit |-> IF ok THEN ld.host.s ELSE <<>>,
      key_edit |-> IF ok THEN ld.api_key.s ELSE <<>>,
      voice_items |-> IF ok THEN rv.items ELSE <<>>,
      voice_idx |-> IF ok THEN rv.idx ELSE 0,
      picked |-> IF ok THEN rv.picked ELSE <<>>,
      log |-> IF ok THEN rv.lines \o LogLines(<<"[Ready]">>) ELSE <<>>]

\* ------------------------------------------------------------ HTTP helpers
\* A reply of the gateway as the requests library hands it over:
\*   net    : "ok", or "conn" when no response arrived (ConnectionError)
\*   status : the status code
\*   json   : what r.json() gives: "object", "null", or "invalid" (it raises)
\*   text   : the object's "text" member
\*   raw    : r.text
Reply(net, status, json, text, raw) ==
  [net |-> net, status |-> status, json |-> json, text |-> text, raw |-> raw]

NoReply == Reply("none", "0", "invalid", Absent, <<>>)
NoObs == Obs("none", "ui", Quiet, NoReply)

ChatReplies ==
  { Reply("ok", "200", "object", PyStr(<<"_", "hello", "_">>), <<"hello">>),
    Reply("ok", "200", "object", PyStr(<<"_">>), <<>>),
    Reply("ok", "200", "object", Absent, <<>>),
    Reply("ok", "200", "object", PyNum, <<"5">>),
    Reply("ok", "401", "object", Absent, <<"denied">>),
    Reply("conn", "0", "invalid", Absent, <<>>) }

VisionReplies ==
  { Reply("ok", "200", "object", PyStr(<<"cat", "_">>), <<"cat">>),
    Reply("ok", "200", "null", Absent, <<"null">>),
    Reply("ok", "200", "invalid", Absent, <<"oops">>),
    Reply("ok", "401", "object", Absent, <<"denied">>),
    Reply("ok", "500", "invalid", Absent, <<"oops">>),
    Reply("conn", "0", "invalid", Absent, <<>>) }

\* Response.raise_for_status(): raises HTTPError for 4xx and 5xx.
IsErrorStatus(status) == status \in {"401", "500"}

\* MainWindow._hk
Hk(he, ke, st) ==
  LET host == IF Strip(he) # <<>> THEN Strip(he) ELSE Strip(st.host.s)
      key  == IF Strip(ke) # <<>> THEN Strip(ke) ELSE Strip(st.api_key.s)
  IN [ok |-> host # <<>> /\ key # <<>>, host |-> host, key |-> key]

\* The request without r.raise_for_status(): an error status goes unnoticed.
PostNoRaise(reply) ==
  IF reply.net # "ok" THEN [exc |-> "ConnectionError", e |-> <<"refused">>]
  ELSE IF reply.json = "invalid" THEN [exc |-> "Exception", e |-> <<"Expecting value">>]
  ELSE [exc |-> "none", e |-> <<>>]

\* MainWindow._post_chat and the HTTP part of _post_vision: the exception
\* raised ("none" when the parsed body is returned) and its message.
Post(reply) ==
  IF reply.net # "ok" THEN [exc |-> "ConnectionError", e |-> <<"refused">>]
  ELSE IF IsErrorStatus(reply.status) THEN [exc |-> "HTTPError", e |-> <<reply.status, "Error">>]
  ELSE IF reply.json = "invalid" THEN [exc |-> "Exception", e |-> <<"Expecting value">>]
  ELSE [exc |-> "none", e |-> <<>>]

\* The reply's text taken as it comes, without .strip().
ResTextNoStrip(reply) ==
  IF reply.json = "null" \/ reply.text.t = "absent" THEN [exc |-> "none", msg |-> <<>>]
  ELSE IF reply.text.t = "str" THEN [exc |-> "none", msg |-> reply.text.s]
  ELSE [exc |-> "Exception", msg |-> <<"no attribute strip">>]

\* (res or {}).get("text", "").strip(): raises on a text that is no string.
ResText(reply) ==
  IF reply.json = "null" \/ reply.text.t = "absent" THEN [exc |-> "none", msg |-> <<>>]
  ELSE IF reply.text.t = "str" THEN [exc |-> "none", msg |-> Strip(reply.text.s)]
  ELSE [exc |-> "Exception", msg |-> <<"no attribute strip">>]

Req(endpoint, th) == [endpoint |-> endpoint, thread |-> th]

\* ---------------------------------------------------- chat / vision actions
\* MainWindow._send_chat run by thread th with chat_input holding input.
SendChatOn(th, input, reply) ==
  LET hk   == Hk(host_edit, key_edit, settings)
      text == Strip(input)
      post == Post(reply)
      rt   == ResText(reply)
      you  == <<"You:">> \o text
      sent == <<Req("/chat", th)>>
  IN IF ~hk.ok
       THEN Result(<< <<"Chat error:", "Host or API key missing.">> >>, <<>>, <<>>, FALSE, "none", FALSE)
     ELSE IF text = <<>> THEN Result(<<>>, <<>>, <<>>, FALSE, "none", FALSE)
     ELSE IF post.exc = "HTTPError"
       THEN Result(<<you, <<"Chat error:">> \o post.e \o <<"|", "Body:">> \o reply.raw>>,
                   <<>>, sent, FALSE, "http", FALSE)
     ELSE IF post.exc # "none"
       THEN Result(<<you, <<"Chat error:">> \o post.e>>, <<>>, sent, FALSE, "http", FALSE)
     ELSE IF rt.exc # "none"
       THEN Result(<<you, <<"Chat error:">> \o rt.msg>>, <<>>, sent, FALSE, "response", FALSE)
     ELSE IF rt.msg # <<>>
       THEN Result(<<you, <<"Assistant:">> \o rt.msg>>, <<rt.msg>>, sent, FALSE, "none", FALSE)
     ELSE Result(<<you, <<"Assistant:", "(empty)">> >>, <<>>, sent, FALSE, "none", FALSE)

\* MainWindow._vision_with_frame run by thread th; encoded tells whether
\* cv2.imencode in encode_jpeg succeeded.
VisionWithFrameOn(th, encoded, reply) ==
  LET hk   == Hk(host_edit, key_edit, settings)
      post == Post(reply)
      rt   == ResText(reply)
      sent == <<Req("/vision", th)>>
  IN IF ~hk.ok
       THEN Result(<< <<"Vision error:", "Host or API key missing.">> >>, <<>>, <<>>, FALSE, "none", FALSE)
     ELSE IF ~encoded
       THEN Result(<< <<"Vision error:", "Failed to encode frame as JPEG">> >>, <<>>, <<>>, FALSE, "encode", FALSE)
     ELSE IF post.exc = "HTTPError"
       THEN Result(<< <<"Vision error:">> \o post.e \o <<"|", "Body:">> \o reply.raw >>,
                   <<>>, sent, FALSE, "http", FALSE)
     ELSE IF post.exc = "ConnectionError"
       THEN Result(<< <<"Vision error:", "connection failed">> \o post.e >>, <<>>, sent, FALSE, "http", FALSE)
     ELSE IF post.exc # "none"
       THEN Result(<< <<"Vision error:">> \o post.e >>, <<>>, sent, FALSE, "http", FALSE)
     ELSE IF rt.exc # "none"
       THEN Result(<< <<"Vision error:">> \o rt.msg >>, <<>>, sent, FALSE, "response", FALSE)
     ELSE IF rt.msg # <<>>
       THEN Result(<< <<"Vision:", "NL">> \o rt.msg >>, <<rt.msg>>, sent, FALSE, "none", FALSE)
     ELSE Result(<< <<"Vision:", "(empty response).">> >>, <<>>, sent, FALSE, "none", FALSE)

\* MainWindow._vision_click and MainWindow._snap_to_vision
VisionClickOn(th, noFrameMsg, encoded, reply) ==
  IF last_frame = "None"
  THEN Result(<<noFrameMsg>>, <<>>, <<>>, FALSE, "none", FALSE)
  ELSE VisionWithFrameOn(th, encoded, reply)

\* ---------------------------------------------------------------- speak last
IsReplyLine(s) == StartsWith(s, "Assistant:") \/ StartsWith(s, "Vision:")
\* s.split(":", 1)[1].strip() of a line that starts with such a prefix
Content(s) == Strip(Tail(s))

\* "Speak last" without its second loop over the non-blank lines.
SpeakLastTextNoFallback(lst, lg) ==
  LET hits == {i \in 1..Len(lg) : IsReplyLine(Strip(lg[i])) /\ Content(Strip(lg[i])) # <<>>}
  IN IF lst # <<>> THEN Result(<<>>, <<lst>>, <<>>, FALSE, "none", FALSE)
     ELSE IF hits # {} THEN Result(<<>>, <<Content(Strip(lg[SetMax(hits)]))>>, <<>>, FALSE, "none", FALSE)
     ELSE Result(<< <<"Nothing to speak yet.">> >>, <<>>, <<>>, FALSE, "none", FALSE)

\* MainWindow._speak_last_text on last-spoken text lst and log lines lg.
SpeakLastText(lst, lg) ==
  LET hits == {i \in 1..Len(lg) : IsReplyLine(Strip(lg[i])) /\ Content(Strip(lg[i])) # <<>>}
      full == {i \in 1..Len(lg) : Strip(lg[i]) # <<>>}
  IN IF lst # <<>> THEN Result(<<>>, <<lst>>, <<>>, FALSE, "none", FALSE)
     ELSE IF hits # {} THEN Result(<<>>, <<Content(Strip(lg[SetMax(hits)]))>>, <<>>, FALSE, "none", FALSE)
     ELSE IF full # {} THEN Result(<<>>, <<Strip(lg[SetMax(full)])>>, <<>>, FALSE, "none", FALSE)
     ELSE Result(<< <<"Nothing to speak yet.">> >>, <<>>, <<>>, FALSE, "none", FALSE)

\* ------------------------------------------------------------ UI thread steps
RECURSIVE LinesOf(_)
LinesOf(msgs) == IF msgs = <<>> THEN <<>> ELSE LogLines(Head(msgs)) \o LinesOf(Tail(msgs))

FreeSlots == {i \in Slots : threads[i].pc = "idle"}

\* MainWindow._speak_async for the texts a handler passed to it: no thread
\* for an empty text or without pyttsx3, else the text is remembered and a
\* new thread is started.
SpeakAsync(speak) ==
  IF speak = <<>> \/ Head(speak) = <<>> \/ ~libs.pyttsx3
  THEN UNCHANGED <<last_spoken_text, threads>>
  ELSE /\ FreeSlots # {}
       /\ last_spoken_text' = Head(speak)
       /\ threads' = [threads EXCEPT ![SetMin(FreeSlots)] = [pc |-> "start", text |-> Head(speak)]]

\* A handler dispatched by the event loop: it runs on the UI thread, appends
\* its messages to the log and starts the speech it asked for.
UiStep(h, r, reply) ==
  /\ phase = "on"
  /\ Len(log) < MaxLog
  /\ log' = log \o LinesOf(r.msgs)
  /\ SpeakAsync(r.speak)
  /\ obs' = Obs(h, "ui", r, IF r.sent = <<>> THEN NoReply ELSE reply)
  /\ UNCHANGED tts_lock

HostTexts == {<<>>, <<"_", "h", "_">>}
KeyTexts == {<<>>, <<"k">>}
ChatTexts == {<<>>, <<"_", "hi">>}

EditHost ==
  /\ phase = "on"
  /\ \E t \in HostTexts : host_edit' = t
  /\ obs' = Obs("edit", "ui", Quiet, NoReply)
  /\ UNCHANGED <<phase, libs, settingsVars, key_edit, chat_input, mic_target, voiceVars,
                 cameraVars, ttsVars, log, hist>>

EditKey ==
  /\ phase = "on"
  /\ \E t \in KeyTexts : key_edit' = t
  /\ obs' = Obs("edit", "ui", Quiet, NoReply)
  /\ UNCHANGED <<phase, libs, settingsVars, host_edit, chat_input, mic_target, voiceVars,
                 cameraVars, ttsVars, log, hist>>

EditChat ==
  /\ phase = "on"
  /\ \E t \in ChatTexts : chat_input' = t
  /\ obs' = Obs("edit", "ui", Quiet, NoReply)
  /\ UNCHANGED <<phase, libs, settingsVars, host_edit, key_edit, mic_target, voiceVars,
                 cameraVars, ttsVars, log, hist>>

SetMicTarget ==
  /\ phase = "on"
  /\ \E m \in {"chat", "vision"} : mic_target' = m
  /\ obs' = Obs("edit", "ui", Quiet, NoReply)
  /\ UNCHANGED <<phase, libs, settingsVars, host_edit, key_edit, chat_input, voiceVars,
                 cameraVars, ttsVars, log, hist>>

\* "Save": MainWindow._save_settings
SaveSettings ==
  /\ settings' = [settings EXCEPT !.host = PyStr(Strip(host_edit)),
                                  !.api_key = PyStr(Strip(key_edit))]
  /\ file' = SettingsSave(settings')
  /\ hist' = [hist EXCEPT !.save = <<[host |-> host_edit, api_key |-> key_edit]>>]
  /\ UiStep("_save_settings",
            Result(<< <<"[Saved]", "Settings written to settings.json.">> >>,
                   <<>>, <<>>, FALSE, "none", FALSE), NoReply)
  /\ UNCHANGED <<phase, libs, loaded, editVars, voiceVars, cameraVars>>

\* The user picks another voice: MainWindow._on_voice_changed
VoiceChanged ==
  /\ \E j \in 1..Len(voice_items) :
       /\ j # voice_idx
       /\ voice_idx' = j
       /\ settings' = OnVoiceChanged(settings, voice_items[j])
       /\ file' = SettingsSave(settings')
       /\ hist' = [hist EXCEPT !.voice = <<voice_items[j]>>]
       /\ UiStep("_on_voice_changed",
                 Result(<<VoiceMsg(voice_items[j])>>, <<>>, <<>>, FALSE, "none", FALSE), NoReply)
  /\ UNCHANGED <<phase, libs, loaded, editVars, voice_items, cameraVars>>

\* "Test": MainWindow._test_health
TestHealth ==
  /\ \E reply \in {Reply("ok", "200", "object", Absent, <<"up">>),
                   Reply("conn", "0", "invalid", Absent, <<>>)} :
       LET hk == Hk(host_edit, key_edit, settings)
       IN UiStep("_test_health",
            IF ~hk.ok
              THEN Result(<< <<"Health check error:", "Host or API key missing.">> >>,
                          <<>>, <<>>, FALSE, "none", FALSE)
            ELSE IF reply.net # "ok"
              THEN Result(<< <<"Health check error:">> \o Post(reply).e >>,
                          <<>>, <<Req("/health", "ui")>>, FALSE, "http", FALSE)
            ELSE Result(<< <<"Health:", reply.status>> \o reply.raw >>,
                        <<>>, <<Req("/health", "ui")>>, FALSE, "none", FALSE),
            reply)
  /\ UNCHANGED <<phase, libs, settingsVars, editVars, voiceVars, cameraVars, hist>>

\* "Send": MainWindow._send_chat, the gateway answering with one of replies
SendChatWith(replies) ==
  /\ \E reply \in replies : UiStep("_send_chat", SendChatOn("ui", chat_input, reply), reply)
  /\ UNCHANGED <<phase, libs, settingsVars, editVars, voiceVars, cameraVars, hist>>

SendChat == SendChatWith(ChatReplies)

\* "Vision (use last frame)": MainWindow._vision_click, the gateway answering
\* with one of replies
VisionClickWith(replies, encodings) ==
  /\ \E reply \in replies, encoded \in encodings :
       UiStep("_vision_click",
              VisionClickOn("ui", <<"No frame.", "Start Camera or Snap first.">>, encoded, reply),
              reply)
  /\ UNCHANGED <<phase, libs, settingsVars, editVars, voiceVars, cameraVars, hist>>

VisionClick == VisionClickWith(VisionReplies, BOOLEAN)

\* "Snap -> Vision": MainWindow._snap_to_vision
SnapToVision ==
  /\ \E reply \in VisionReplies, encoded \in BOOLEAN :
       UiStep("_snap_to_vision", VisionClickOn("ui", <<"No frame yet.">>, encoded, reply), reply)
  /\ UNCHANGED <<phase, libs, settingsVars, editVars, voiceVars, cameraVars, hist>>

\* "Speak last": MainWindow._speak_last_text
SpeakLast ==
  /\ UiStep("_speak_last_text", SpeakLastText(last_spoken_text, log), NoReply)
  /\ UNCHANGED <<phase, libs, settingsVars, editVars, voiceVars, cameraVars, hist>>

\* ------------------------------------------------------------------ mic (STT)
MicOutcomes == {"no_mic", "listen_raise", "unknown_value", "request_error", "heard"}
Transcript == <<"hi">>

\* Prefix the messages and the listen of the mic handler to what the send did.
AfterListen(r) ==
  [r EXCEPT !.msgs = << <<"Listening...", "(speak now)">> >> \o r.msgs, !.listen = TRUE]

\* "Start talking": MainWindow._chat_from_mic.  The slot is connected to the
\* button directly, so the event loop runs it on the UI thread.
ChatFromMicOn(th, mic, encoded, reply) ==
  IF ~libs.sr
    THEN Result(<< <<"STT not available.", "Install: SpeechRecognition + PyAudio">> >>,
                <<>>, <<>>, FALSE, "none", FALSE)
  ELSE IF mic = "no_mic"
    THEN Result(<< <<"Mic error:", "no input device">> >>, <<>>, <<>>, FALSE, "microphone", FALSE)
  ELSE IF mic = "listen_raise"
    THEN AfterListen(Result(<< <<"Mic error:", "timed out">> >>, <<>>, <<>>, FALSE, "listen", FALSE))
  ELSE IF mic = "unknown_value"
    THEN AfterListen(Result(<< <<"Sorry,", "I couldn't understand your speech.">> >>,
                            <<>>, <<>>, FALSE, "recognize", FALSE))
  ELSE IF mic = "request_error"
    THEN AfterListen(Result(<< <<"Speech service error:", "unreachable">> >>,
                            <<>>, <<>>, FALSE, "recognize", FALSE))
  ELSE IF mic_target = "vision"
    THEN AfterListen(VisionClickOn(th, <<"No camera frame.", "Start Camera and try again.">>,
                                   encoded, reply))
  ELSE AfterListen(SendChatOn(th, Transcript, reply))

ChatFromMic ==
  /\ \E mic \in MicOutcomes, encoded \in BOOLEAN, reply \in ChatReplies \cup VisionReplies :
       /\ reply \in (IF mic_target = "vision" THEN VisionReplies ELSE ChatReplies)
       /\ UiStep("_chat_from_mic", ChatFromMicOn("ui", mic, encoded, reply), reply)
       /\ chat_input' = IF libs.sr /\ mic = "heard" /\ mic_target = "chat"
                        THEN Transcript ELSE chat_input
  /\ UNCHANGED <<phase, libs, settingsVars, host_edit, key_edit, mic_target, voiceVars,
                 cameraVars, hist>>

\* ---------------------------------------------------------------------- camera
CamOutcomes == {"ctor_raise", "opened", "not_opened", "not_opened_release_raise"}

\* "Start Camera" / "Stop Camera": MainWindow._toggle_camera
ToggleCameraWith(outcomes) ==
  /\ \E out \in outcomes, rel \in BOOLEAN :
       IF ~libs.cv2 THEN
         /\ UiStep("_toggle_camera",
                   Result(<< <<"OpenCV not available.", "Install opencv-python.">> >>,
                          <<>>, <<>>, FALSE, "none", FALSE), NoReply)
         /\ UNCHANGED cameraVars
       ELSE IF cap = "None" THEN
         /\ cap' = CASE out = "opened" -> "open"
                     [] out = "not_opened_release_raise" -> "closed"
                     [] OTHER -> "None"
         /\ cam_timer' = (out = "opened")
         /\ UNCHANGED last_frame
         /\ UiStep("_toggle_camera",
              CASE out = "opened" -> Result(<<>>, <<>>, <<>>, FALSE, "none", FALSE)
                [] out = "ctor_raise" ->
                     Result(<< <<"Camera error:", "backend">> >>, <<>>, <<>>, FALSE, "open", FALSE)
                [] out = "not_opened" ->
                     Result(<< <<"Could not open webcam.">> >>, <<>>, <<>>, FALSE, "open", FALSE)
                [] OTHER ->
                     Result(<< <<"Camera error:", "release">> >>, <<>>, <<>>, FALSE, "release", FALSE),
              NoReply)
       ELSE
         /\ cam_timer' = FALSE
         /\ cap' = "None"
         /\ last_frame' = "None"
         /\ UiStep("_toggle_camera",
                   Result(<<>>, <<>>, <<>>, FALSE, IF rel THEN "none" ELSE "release", FALSE),
                   NoReply)
  /\ UNCHANGED <<phase, libs, settingsVars, editVars, voiceVars, hist>>

ToggleCamera == ToggleCameraWith(CamOutcomes)

ReadOutcomes == {"frame", "frame_convert_raise", "no_frame", "read_raise"}

\* The frame timer's callback: MainWindow._grab_frame
GrabFrame ==
  /\ phase = "on"
  /\ cam_timer
  /\ \E out \in ReadOutcomes :
       IF cap = "None" THEN
         /\ obs' = Obs("_grab_frame", "ui", Quiet, NoReply)
         /\ UNCHANGED last_frame
       ELSE
         /\ last_frame' = IF out \in {"frame", "frame_convert_raise"} THEN "frame" ELSE last_frame
         /\ obs' = Obs("_grab_frame", "ui",
                       Result(<<>>, <<>>, <<>>, FALSE,
                              CASE out = "read_raise" -> "read"
                                [] out = "frame_convert_raise" -> "cvtColor"
                                [] OTHER -> "none",
                              out \in {"read_raise", "frame_convert_raise"}),
                       NoReply)
  /\ UNCHANGED <<phase, libs, settingsVars, editVars, voiceVars, cap, cam_timer, ttsVars,
                 log, hist>>

\* ------------------------------------------------------ text-to-speech threads
\* The body of run() in MainWindow._speak_async, one engine call per step.
\* "with self._tts_lock" takes the lock before the first call and gives it
\* back when the block is left, by its end or by an exception.
Section == {"init", "say", "runAndWait", "stop"}

WorkerObs(fail, msgs) ==
  Obs("run", "worker", Result(msgs, <<>>, <<>>, FALSE, fail, FALSE), NoReply)

\* The lock taken without waiting for its holder, as with no lock at all.
WorkerAcquireNoWait(i) ==
  /\ threads[i].pc = "start"
  /\ tts_lock' = i
  /\ threads' = [threads EXCEPT ![i].pc = "init"]
  /\ obs' = WorkerObs("none", <<>>)
  /\ UNCHANGED <<phase, libs, settingsVars, editVars, voiceVars, cameraVars,
                 last_spoken_text, log, hist>>

\* threading.Lock.acquire at "with self._tts_lock"
WorkerAcquire(i) ==
  /\ threads[i].pc = "start"
  /\ tts_lock = 0
  /\ tts_lock' = i
  /\ threads' = [threads EXCEPT ![i].pc = "init"]
  /\ obs' = WorkerObs("none", <<>>)
  /\ UNCHANGED <<phase, libs, settingsVars, editVars, voiceVars, cameraVars,
                 last_spoken_text, log, hist>>

\* An exception leaves the with block: the lock is released on the way out,
\* and the thread goes on to the except clause with the call that failed.
WorkerRaise(i, call) ==
  /\ tts_lock' = 0
  /\ threads' = [threads EXCEPT ![i] = [pc |-> "except", text |-> <<call>>]]
  /\ obs' = WorkerObs("none", <<>>)

NextCall(pc) ==
  CASE pc = "init" -> "say" [] pc = "say" -> "runAndWait" [] pc = "runAndWait" -> "stop"
    [] OTHER -> "idle"

\* pyttsx3.init() and the voice selection; eng.say; eng.runAndWait; eng.stop
\* and the end of the with block.  voices tells whether eng.getProperty
\* ("voices") worked: its failure is swallowed by the inner try.
WorkerCall(i) ==
  /\ threads[i].pc \in Section
  /\ tts_lock = i
  /\ \E ok \in BOOLEAN, voices \in BOOLEAN :
       IF ~ok \/ (threads[i].pc = "init" /\ settings.voice_name.t = "num")
       THEN WorkerRaise(i, threads[i].pc)
       ELSE /\ threads' = [threads EXCEPT ![i] =
                 IF threads[i].pc = "stop" THEN IdleThread
                 ELSE [threads[i] EXCEPT !.pc = NextCall(threads[i].pc)]]
            /\ tts_lock' = IF threads[i].pc = "stop" THEN 0 ELSE tts_lock
            /\ obs' = WorkerObs(IF threads[i].pc = "init" /\ settings.voice_name.s # <<>> /\ ~voices
                                THEN "getProperty" ELSE "none", <<>>)
  /\ UNCHANGED <<phase, libs, settingsVars, editVars, voiceVars, cameraVars,
                 last_spoken_text, log, hist>>

\* except Exception as e: self._log(f"TTS error: {e}"), called from the
\* worker thread.  The log pane belongs to the UI thread, so the unsynchronised
\* append may or may not show up in it.
WorkerLogError(i) ==
  /\ threads[i].pc = "except"
  /\ \E shown \in BOOLEAN :
       /\ log' = IF shown THEN log \o LogLines(<<"TTS error:", "engine">>) ELSE log
       /\ obs' = WorkerObs(Head(threads[i].text), IF shown THEN << <<"TTS error:", "engine">> >> ELSE <<>>)
  /\ threads' = [threads EXCEPT ![i] = IdleThread]
  /\ UNCHANGED <<phase, libs, settingsVars, editVars, voiceVars, cameraVars,
                 tts_lock, last_spoken_text, hist>>

Worker == \E i \in Slots : WorkerAcquire(i) \/ WorkerCall(i) \/ WorkerLogError(i)

\* ------------------------------------------------------------- process life
EnumOutcomes == {"ok", "empty", "raise"}
LibSets == [pyttsx3 : BOOLEAN, sr : BOOLEAN, cv2 : BOOLEAN]
NoHist == [save |-> <<>>, voice |-> <<>>]

\* The window that construction c (a value of Construct) leaves, with log
\* pane lg; or the dead process when construction raised.
WindowState(c, lb, lg) ==
  /\ phase = IF c.ok THEN "on" ELSE "off"
  /\ libs = lb
  /\ file = c.file
  /\ loaded = c.loaded
  /\ settings = c.settings
  /\ host_edit = c.host_edit
  /\ key_edit = c.key_edit
  /\ chat_input = <<>>
  /\ mic_target = "chat"
  /\ voice_items = c.voice_items
  /\ voice_idx = c.voice_idx
  /\ cap = "None"
  /\ cam_timer = FALSE
  /\ last_frame = "None"
  /\ tts_lock = 0
  /\ last_spoken_text = <<>>
  /\ log = lg
  /\ threads = [i \in Slots |-> IdleThread]
  /\ obs = NoObs
  /\ hist = [save |-> <<>>, voice |-> c.picked]

\* The state main() leaves when MainWindow() has been constructed over
\* settings file f.
Constructed(f, lb, enum) ==
  LET c == Construct(f, lb, enum) IN WindowState(c, lb, c.log)

\* main() in a new process: MainWindow.__init__ over the file as it is.
Start ==
  /\ phase = "off"
  /\ \E enum \in EnumOutcomes :
       LET c == Construct(file, libs, enum)
       IN /\ phase' = IF c.ok THEN "on" ELSE "off"
          /\ file' = c.file
          /\ loaded' = c.loaded
          /\ settings' = c.settings
          /\ host_edit' = c.host_edit
          /\ key_edit' = c.key_edit
          /\ voice_items' = c.voice_items
          /\ voice_idx' = c.voice_idx
          /\ log' = c.log
          /\ hist' = [hist EXCEPT !.voice = IF c.picked # <<>> THEN c.picked ELSE @]
  /\ chat_input' = <<>>
  /\ mic_target' = "chat"
  /\ obs' = Obs("__init__", "ui", Quiet, NoReply)
  /\ UNCHANGED <<libs, cameraVars, ttsVars>>

\* The window is closed and the process ends (sys.exit(app.exec())).
Quit ==
  /\ phase = "on"
  /\ phase' = "off"
  /\ cap' = "None" /\ cam_timer' = FALSE /\ last_frame' = "None"
  /\ tts_lock' = 0 /\ last_spoken_text' = <<>>
  /\ threads' = [i \in Slots |-> IdleThread]
  /\ obs' = Obs("exit", "ui", Quiet, NoReply)
  /\ UNCHANGED <<libs, settingsVars, editVars, voiceVars, log, hist>>

\* settings.json as this program or anything else may have left it.
FieldValues(s) == {Absent, PyStr(s), PyNum}
FileContents ==
  { [kind |-> k, obj |-> NoObject] : k \in {"absent", "invalid", "array"} }
  \cup
  { [kind |-> "object",
     obj |-> [host |-> h, api_key |-> a, voice_name |-> v, other |-> o]] :
     h \in FieldValues(<<"h">>), a \in {Absent, PyStr(<<"k">>), PyNull},
     v \in FieldValues(<<"bob">>) \cup {PyStr(<<"zed">>)}, o \in {Absent, PyStr(<<"x">>)} }

\* One call of MainWindow._log with a message the handlers produce.
LogMsgs ==
  { <<"Assistant:", "hello">>, <<"Assistant:", "(empty)">>, <<"You:", "hi">>,
    <<"Vision:", "NL", "cat">>, <<"Vision:", "NL", "Vision:", "dog">>,
    <<"Chat error:", "refused">> }
LogCall ==
  /\ phase = "on"
  /\ Len(log) < MaxLog
  /\ \E msg \in LogMsgs :
       /\ log' = log \o LogLines(msg)
       /\ obs' = Obs("_log", "ui", Result(<<msg>>, <<>>, <<>>, FALSE, "none", FALSE), NoReply)
  /\ UNCHANGED <<phase, libs, settingsVars, editVars, voiceVars, cameraVars, ttsVars, hist>>

\* ------------------------------------------------------------ specifications
\* The window constructed over one of the settings files F, with one of the
\* import outcomes L and one of the voice enumerations E.
Boot(F, L, E) == \E f \in F, lb \in L, enum \in E : Constructed(f, lb, enum)

SavedFile ==
  SettingsSave([host |-> PyStr(<<"h">>), api_key |-> PyStr(<<"k">>),
                voice_name |-> PyStr(<<"bob">>)])
\* settings.json at start: none yet, or one written by an earlier run.
StartFiles == {NoFile, SavedFile}
AllLibs == [pyttsx3 |-> TRUE, sr |-> TRUE, cv2 |-> TRUE]

\* Speech: every handler that asks for speech, the camera that feeds the
\* vision handler, and the worker threads.
Init == Boot({SavedFile}, {AllLibs}, {"ok"})
SpeechChatReplies == {r \in ChatReplies : r.text.t = "str"}
SpeechVisionReplies == {r \in VisionReplies : r.text.t = "str"}
Next ==
  \/ EditChat
  \/ SendChatWith(SpeechChatReplies)
  \/ ToggleCameraWith({"opened"})
  \/ GrabFrame
  \/ VisionClickWith(SpeechVisionReplies, {TRUE})
  \/ SpeakLast
  \/ Worker
Spec == Init /\ [][Next]_vars

\* Chat: the chat handlers with and without host/key and pyttsx3.
InitChat == Boot(StartFiles, {lb \in LibSets : lb.sr /\ lb.cv2}, {"ok"})
NextChat == EditChat \/ SendChat \/ SpeakLast \/ TestHealth \/ Worker
SpecChat == InitChat /\ [][NextChat]_vars

\* Camera, vision and microphone.
InitCamera == Boot(StartFiles, {lb \in LibSets : lb.pyttsx3}, {"ok"})
NextCamera ==
  \/ ToggleCamera \/ GrabFrame \/ VisionClick \/ SnapToVision
  \/ SetMicTarget \/ ChatFromMic \/ Worker
SpecCamera == InitCamera /\ [][NextCamera]_vars

\* Settings: runs of the program over any settings.json, with the Save
\* button and the voice list.
InitSettings == Boot(FileContents, {lb \in LibSets : lb.sr /\ lb.cv2}, EnumOutcomes)
NextSettings ==
  \/ EditHost \/ EditKey \/ SaveSettings \/ VoiceChanged
  \/ Quit \/ Start
SpecSettings == InitSettings /\ [][NextSettings]_vars

\* Speak last: _speak_last_text over every pane that _log calls produce,
\* from the empty pane that _build_ui creates.
InitSpeakLast ==
  \E lb \in {lb \in LibSets : lb.sr /\ lb.cv2} :
    WindowState(Construct(NoFile, lb, "ok"), lb, <<>>)
NextSpeakLast == LogCall \/ SpeakLast
SpecSpeakLast == InitSpeakLast /\ [][NextSpeakLast]_vars

\* ===================================================================== claims

\* C1: at most one worker thread is inside the speech-synthesis section
\* (engine init, say, runAndWait, stop) at any time; the thread inside it is
\* the one that holds _tts_lock, and a thread that left the section, by its
\* end or by an exception, no longer holds it.
InSection(i) == threads[i].pc \in Section
C1_OneUtteranceAtATime ==
  /\ \A i, j \in Slots : InSection(i) /\ InSection(j) => i = j
  /\ \A i \in Slots : InSection(i) <=> tts_lock = i
\* A second request waits at the lock while the first utterance is running.
C1_SecondRequestWaits ==
  \E i, j \in Slots :
    /\ threads[i].pc = "runAndWait"
    /\ threads[j].pc = "start"
    /\ threads[i].text # threads[j].text

\* C2: the microphone listen, and the chat or vision request that the
\* transcript triggers, never run on the UI thread.
C2_MicOffUiThread ==
  /\ obs.listen => obs.thread # "ui"
  /\ obs.handler = "_chat_from_mic" =>
       \A k \in 1..Len(obs.sent) : obs.sent[k].thread # "ui"

\* C3: a failed external call is caught in the handler that made it and gives
\* exactly one line of the log; no exception leaves the handler, the timer
\* callback or the worker thread.
ErrorPrefixes ==
  {"Chat error:", "Vision error:", "Mic error:", "TTS error:", "Camera error:",
   "Health check error:", "Speech service error:", "Sorry,", "Could not open webcam."}
ErrorMsgs(o) == {k \in 1..Len(o.msgs) : Head(o.msgs[k]) \in ErrorPrefixes}
C3_FailuresAreLogged ==
  obs.fail # "none" => ~obs.escaped /\ Cardinality(ErrorMsgs(obs)) = 1

\* C4: with no utterance spoken yet, "Speak last" submits the content of the
\* most recent log entry that is an "Assistant:" or "Vision:" entry.
ReplyEntries(lg) ==
  {i \in 1..Len(lg) : Len(lg[i]) >= 2 /\ lg[i][1] = "TS" /\ lg[i][2] \in {"Assistant:", "Vision:"}}
EntryContent(lg, i) ==
  IF Len(lg[i]) > 2 THEN SubSeq(lg[i], 3, Len(lg[i]))
  ELSE IF i < Len(lg) THEN lg[i + 1] ELSE <<>>
C4_SpeaksLastReply ==
  [][(obs'.handler = "_speak_last_text" /\ last_spoken_text = <<>> /\ ReplyEntries(log) # {})
       => obs'.speak = <<EntryContent(log, SetMax(ReplyEntries(log)))>>]_vars

\* C5: a completed /chat send logs "You: <input>" and then exactly one
\* "Assistant: <text>" line and asks for speech of <text> exactly once when
\* the reply's text is non-empty after stripping; it logs "Assistant: (empty)"
\* and asks for no speech when the text is empty or missing.
C5_ChatReplySpoken ==
  (/\ obs.handler = "_send_chat"
   /\ obs.sent # <<>>
   /\ obs.reply.net = "ok" /\ obs.reply.status = "200" /\ obs.reply.json = "object"
   /\ obs.reply.text.t \in {"str", "absent"})
  => LET t   == Strip(obs.reply.text.s)
         you == <<"You:">> \o Strip(chat_input)
     IN /\ Len(obs.sent) = 1
        /\ IF t # <<>>
           THEN /\ obs.msgs = <<you, <<"Assistant:">> \o t>>
                /\ obs.speak = <<t>>
                /\ libs.pyttsx3 =>
                     /\ last_spoken_text = t
                     /\ \E i \in Slots : threads[i] = [pc |-> "start", text |-> t]
           ELSE /\ obs.msgs = <<you, <<"Assistant:", "(empty)">> >>
                /\ obs.speak = <<>>
\* A chat send whose reply " hello " was logged and spoken as "hello".
C5_HelloSpoken ==
  /\ obs.handler = "_send_chat"
  /\ obs.reply.text = PyStr(<<"_", "hello", "_">>)
  /\ obs.speak = << <<"hello">> >>
  /\ libs.pyttsx3

\* C6: a /vision request answered with an HTTP error status appends exactly
\* one line, which holds the status and the response body, asks for no
\* speech, leaves the last-spoken text and the threads alone and is sent once.
IsVisionError(o) ==
  /\ \E k \in 1..Len(o.sent) : o.sent[k].endpoint = "/vision"
  /\ o.reply.net = "ok" /\ IsErrorStatus(o.reply.status)
Tokens(msg) == {msg[k] : k \in 1..Len(msg)}
C6_VisionHttpError ==
  [][IsVisionError(obs')
       => /\ Cardinality(ErrorMsgs(obs')) = 1
          /\ \A k \in ErrorMsgs(obs') :
               /\ Head(obs'.msgs[k]) = "Vision error:"
               /\ obs'.reply.status \in Tokens(obs'.msgs[k])
               /\ Tokens(obs'.reply.raw) \subseteq Tokens(obs'.msgs[k])
          /\ Len(log') = Len(log) + Len(obs'.msgs)
          /\ obs'.speak = <<>>
          /\ last_spoken_text' = last_spoken_text
          /\ threads' = threads
          /\ Len(obs'.sent) = 1]_vars
\* A vision click with a frame was answered 401.
C6_Vision401 ==
  /\ obs.handler = "_vision_click"
  /\ obs.reply.status = "401"
  /\ last_frame = "frame"

\* C7: Settings.load returns a record whose host, api_key and voice_name are
\* strings, all empty when the file is absent or malformed.
SettingsFields == {"host", "api_key", "voice_name"}
C7_LoadYieldsStrings == \A f \in SettingsFields : IsStr(loaded[f])

\* C8: what save wrote, load returns: a record of strings is read back as it
\* was saved, with the host and key of the last Save click (the field texts
\* without surrounding whitespace) and the voice of the last voice selection
\* (none for a placeholder item of the list).
C8_SaveThenLoad ==
  (phase = "on" /\ (hist.save # <<>> \/ hist.voice # <<>>))
  => /\ (\A f \in SettingsFields : IsStr(settings[f])) => SettingsLoad(file) = settings
     /\ hist.save # <<>> =>
          /\ SettingsLoad(file).host = PyStr(Strip(hist.save[1].host))
          /\ SettingsLoad(file).api_key = PyStr(Strip(hist.save[1].api_key))
     /\ hist.voice # <<>> => SettingsLoad(file).voice_name = PyStr(VoiceName(hist.voice[1]))
\* The program was started over what an earlier run saved after a Save click
\* with a host and the selection of the second voice.
C8_ReloadedAfterSave ==
  /\ obs.handler = "__init__"
  /\ phase = "on"
  /\ hist.save # <<>> /\ Strip(hist.save[1].host) # <<>>
  /\ hist.voice = << <<"bob">> >>
  /\ loaded.voice_name = PyStr(<<"bob">>)
  /\ loaded.host = PyStr(<<"h">>)

\* C9: "Speak last" with no prior utterance logs "Nothing to speak yet." and
\* asks for no speech when the log has no lines; when the log has a
\* non-blank line it asks for speech and does not log that line.
C9_NothingToSpeak ==
  [][(obs'.handler = "_speak_last_text" /\ last_spoken_text = <<>>)
       => IF log = <<>>
          THEN /\ obs'.msgs = << <<"Nothing to speak yet.">> >>
               /\ obs'.speak = <<>>
               /\ threads' = threads
          ELSE (\E i \in 1..Len(log) : Strip(log[i]) # <<>>)
               => /\ Len(obs'.speak) = 1
                  /\ Head(obs'.speak) # <<>>
                  /\ obs'.msgs = <<>>
                  /\ log' = log]_vars
\* "Nothing to speak yet." was logged.
C9_NothingLogged ==
  /\ obs.handler = "_speak_last_text"
  /\ obs.msgs = << <<"Nothing to speak yet.">> >>
  /\ log = << <<"TS", "Nothing to speak yet.">> >>

\* C10: a stored frame exists only while the camera is open, the frame timer
\* runs exactly when cap is not None, and a vision, snap or mic-triggered
\* vision request made with no stored frame logs a "no frame" line and sends
\* nothing.
NoFrameMsgs ==
  { <<"No frame.", "Start Camera or Snap first.">>, <<"No frame yet.">>,
    <<"No camera frame.", "Start Camera and try again.">> }
C10_CameraInvariant ==
  /\ last_frame # "None" => cap # "None"
  /\ cam_timer <=> cap # "None"
  /\ (\E k \in 1..Len(obs.msgs) : obs.msgs[k] \in NoFrameMsgs) => obs.sent = <<>>
  /\ (\E k \in 1..Len(obs.sent) : obs.sent[k].endpoint = "/vision") => last_frame # "None"

====
